---- MODULE Spec2Model ----
(***************************************************************************)
(* A model of xnmt's search strategies (xnmt/search_strategy.py):          *)
(* GreedySearch, BeamSearch and SamplingSearch driving a step-wise scorer  *)
(* (translator.output_one_step), and of the result records they build.     *)
(*                                                                         *)
(* Log-probabilities are small non-positive integers.  The scorer is an    *)
(* input: every call draws the distribution it returns from Dists.  The    *)
(* decoder state is opaque to the search code and is identified here with  *)
(* the history that produced it.  Python's None is the empty sequence      *)
(* where a value may be absent (an option is a sequence of length <= 1),   *)
(* and NoWord where a token may be absent.                                 *)
(***************************************************************************)
EXTENDS Integers, Sequences, FiniteSets, TLC

VARIABLES
  strategy,        \* which class's generate_output is running
  pc,              \* position in generate_output
  err,             \* the exception that ended the call ("" if none)
  max_len,         \* self.max_len / self.max_length
  forced_trg_ids,  \* <<>> (None), or <<ids>>: a list of ids or a batch of lists
  batched,         \* xnmt.batcher.is_batched(forced_trg_ids)
  batch_size,      \* number of batch elements the scorer answers for
  scorer_calls,    \* the previous word(s) of every output_one_step call so far
  length,          \* loop variable of the step loop
  results,         \* the returned list of SearchOutput
  \* BeamSearch
  beam_size, one_best, len_norm,
  active_hyp, completed_hyp, new_set,
  hyp_idx,         \* position of "for hyp in active_hyp"
  \* GreedySearch and SamplingSearch.sample_one
  word_ids,        \* word_ids / samples: one list of tokens (one per element) per step
  score,           \* score / logsofts: one list of masked log-probabilities per step
  masks, done,
  \* SamplingSearch
  sample_size, k, outputs,
  use_forced,      \* whether the running sample_one was given forced_trg_ids
  \* Repeated calls on one deterministic scorer
  det,             \* whether the scorer answers a repeated history alike
  memo,            \* what the scorer answered so far, by history
  current_output,  \* <<>> (None), or <<the logsoftmax of the last scorer answer>>
  call,            \* 1 for the first generate_output call, 2 for the second
  first_call,      \* <<>>, or the outcome of the first call
  \* Vocab (xnmt/vocab.py)
  w2i,             \* self.w2i: the id of every known word
  i2w,             \* self.i2w: the word of id i is i2w[i + 1]
  frozen,          \* self.frozen
  unk_token,       \* self.unk_token: <<>> (None), or <<id>>
  vocab_call       \* the last call on the Vocab and how it ended

inputs == <<strategy, max_len, forced_trg_ids, batched, batch_size>>
beamParams == <<beam_size, one_best, len_norm>>
beamVars == <<active_hyp, completed_hyp, new_set, hyp_idx>>
stepVars == <<word_ids, score, masks, done>>
samplingVars == <<sample_size, k, outputs, use_forced>>
callVars == <<det, call, first_call>>
scorerVars == <<memo, current_output>>
vocabVars == <<w2i, i2w, frozen, unk_token, vocab_call>>

vars == <<inputs, pc, err, scorer_calls, length, results, beamParams, beamVars,
          stepVars, samplingVars, callVars, scorerVars, vocabVars>>

-----------------------------------------------------------------------------
(* Bounds of the model *)

MaxLen == 4
MaxBeam == 3
MaxForcedLen == 2

(* Program constants *)

SS == 0
ES == 1
NoWord == -1

SS_STR == "<s>"
ES_STR == "</s>"
UNK_STR == "<unk>"

(* Vocab.__init__ without arguments (lines 32-40): the two reserved words  *)
(* are bound to SS and ES, nothing is frozen and there is no unk token.    *)
NoCall == [op |-> "", w |-> "", ret |-> <<>>, err |-> ""]

VocabInit ==
  /\ w2i = (SS_STR :> SS) @@ (ES_STR :> ES)
  /\ i2w = <<SS_STR, ES_STR>>
  /\ frozen = FALSE
  /\ unk_token = <<>>
  /\ vocab_call = NoCall

(* The vocabulary: the two reserved ids and one ordinary word. *)
Vocab == {SS, ES, 2}

(* The distributions a scorer call may return, one log-probability per     *)
(* token: the sentence surely ends; a word surely follows and the end is   *)
(* least likely; a word is likeliest, then the end, and nothing is sure.   *)
Dist(ss, es, w) == (SS :> ss) @@ (ES :> es) @@ (2 :> w)

Dists == {Dist(-2, 0, -1), Dist(-1, -2, 0), Dist(-3, -2, -1)}

(* translator.output_one_step(prev_word, state): any of the answers in      *)
(* "all", unless the scorer is deterministic and has seen this history.    *)
Answers(history, all) ==
  IF det /\ \E p \in memo : p[1] = history
  THEN {p[2] : p \in {q \in memo : q[1] = history}}
  ELSE all

Remember(history, answer) ==
  IF det THEN memo \cup {<<history, answer>>} ELSE memo

(* Word penalty of the additive length normalization. *)
Penalty == 1

LenNorms == {"NoNormalization", "AdditiveNormalization"}

-----------------------------------------------------------------------------
(* Helpers *)

Max(a, b) == IF a >= b THEN a ELSE b
Min(a, b) == IF a <= b THEN a ELSE b

RECURSIVE Reversed(_)
Reversed(s) == IF s = <<>> THEN <<>> ELSE Append(Reversed(Tail(s)), Head(s))

Take(s, n) == SubSeq(s, 1, Min(n, Len(s)))

RECURSIVE SumSeq(_)
SumSeq(s) == IF s = <<>> THEN 0 ELSE Head(s) + SumSeq(Tail(s))

(* sorted(xs, key=..., reverse=True): a stable sort, descending by key.    *)
(* Each element is a record with a field "key".                            *)
RECURSIVE InsertDesc(_, _)
InsertDesc(x, sorted) ==
  IF sorted = <<>> THEN <<x>>
  ELSE IF Head(sorted).key >= x.key
       THEN <<Head(sorted)>> \o InsertDesc(x, Tail(sorted))
       ELSE <<x>> \o sorted

RECURSIVE SortedDesc(_)
SortedDesc(xs) ==
  IF xs = <<>> THEN <<>>
  ELSE InsertDesc(xs[Len(xs)], SortedDesc(SubSeq(xs, 1, Len(xs) - 1)))

-----------------------------------------------------------------------------
(* HypScore and SearchOutput *)

(* HypScore.__init__: "unnormalized or normalized" takes normalized when   *)
(* unnormalized is None or is falsy, and a score of 0 is falsy.            *)
HypScore(normalized, unnormalized) ==
  [normalized |-> normalized,
   unnormalized |-> IF unnormalized = <<>> \/ unnormalized[1] = 0
                    THEN normalized ELSE unnormalized[1]]

SearchOutput(words, hyp_score, mask) ==
  [word_ids |-> words, score |-> hyp_score, mask |-> mask]

-----------------------------------------------------------------------------
(* BeamSearch *)

(* BeamSearch.Hypothesis.  The field "output" (the scorer's answer that    *)
(* produced the hypothesis) is opaque and is left out; "parent" is <<>>    *)
(* for the root and <<hypothesis>> otherwise.                              *)
Hypothesis(hyp_score, parent, word, unnormalized) ==
  [score |-> hyp_score, parent |-> parent, word |-> word, unnormalized |-> unnormalized]

RootHyp == Hypothesis(0, <<>>, NoWord, 0)

(* The backtrace loop "while current.parent != None": tokens from the      *)
(* leaf towards the root.                                                  *)
RECURSIVE Backtrace(_)
Backtrace(hyp) ==
  IF hyp.parent = <<>> THEN <<>>
  ELSE <<hyp.word>> \o Backtrace(hyp.parent[1])

(* LengthNormalization.normalize_partial *)
normalize_partial(norm, score_so_far, score_to_add, new_len) ==
  score_so_far + score_to_add

(* LengthNormalization.normalize_completed, for one hypothesis *)
normalize_completed(norm, hyp) ==
  IF norm = "AdditiveNormalization"
  THEN hyp.score + Len(Backtrace(hyp)) * Penalty
  ELSE hyp.score

(* np.argpartition(score, max(-len(score), -beam_size))[-beam_size:]: the  *)
(* sets of min(beam_size, len(score)) tokens none of which scores below a  *)
(* token left out.                                                         *)
TopWordSets(logsoftmax, size) ==
  {S \in SUBSET Vocab :
     /\ Cardinality(S) = Min(size, Cardinality(Vocab))
     /\ \A a \in S, b \in Vocab \ S : logsoftmax[a] >= logsoftmax[b]}

(* The selected tokens as a list, lowest score first. *)
RECURSIVE WordsOf(_, _)
WordsOf(S, logsoftmax) ==
  IF S = {} THEN <<>>
  ELSE LET w == CHOOSE a \in S : \A b \in S : logsoftmax[a] <= logsoftmax[b]
       IN <<w>> \o WordsOf(S \ {w}, logsoftmax)

(* The candidates of one expanded hypothesis, lines 154-157. *)
RECURSIVE Candidates(_, _, _, _, _)
Candidates(hyp, logsoftmax, top_words, norm, len) ==
  IF top_words = <<>> THEN <<>>
  ELSE LET cur_word == Head(top_words)
           new_score == normalize_partial(norm, hyp.score, logsoftmax[cur_word], len + 1)
           new_original == logsoftmax[cur_word] + hyp.unnormalized
       IN <<Hypothesis(new_score, <<hyp>>, cur_word, new_original)>>
          \o Candidates(hyp, logsoftmax, Tail(top_words), norm, len)

(* sorted(new_set, key=lambda x: x.score, reverse=True)[:beam_size] *)
Keyed(hyps) == [i \in 1..Len(hyps) |-> [key |-> hyps[i].score, hyp |-> hyps[i]]]
Unkeyed(ks) == [i \in 1..Len(ks) |-> ks[i].hyp]

(* Variant: the first candidates, in the order of their expansion. *)
NextActiveUnsorted(cands, size) == Take(cands, size)

NextActive(cands, size) == Take(Unkeyed(SortedDesc(Keyed(cands))), size)

(* Variant: the completed hypotheses are returned in the order in which    *)
(* they were completed, without the sort of line 165.                      *)
HypAndScoreUnsorted(completed, active, norm, best) ==
  LET comp == IF Len(completed) = 0 THEN active ELSE completed
      zipped == [i \in 1..Len(comp) |->
                   [key |-> normalize_completed(norm, comp[i]), hyp |-> comp[i]]]
  IN IF best THEN <<zipped[1]>> ELSE zipped

(* Variant: without the fallback of lines 161-162 to the active frontier.  *)
HypAndScoreNoFallback(completed, active, norm, best) ==
  LET zipped == [i \in 1..Len(completed) |->
                   [key |-> normalize_completed(norm, completed[i]), hyp |-> completed[i]]]
      sorted == SortedDesc(zipped)
  IN IF best THEN Take(sorted, 1) ELSE sorted

(* Variant: with one_best, the hypothesis of lowest final score. *)
HypAndScoreWorst(completed, active, norm, best) ==
  LET comp == IF Len(completed) = 0 THEN active ELSE completed
      zipped == [i \in 1..Len(comp) |->
                   [key |-> normalize_completed(norm, comp[i]), hyp |-> comp[i]]]
      sorted == SortedDesc(zipped)
  IN IF best THEN <<sorted[Len(sorted)]>> ELSE sorted

(* Lines 161-167: the hypotheses to return, each with its final score. *)
HypAndScore(completed, active, norm, best) ==
  LET comp == IF Len(completed) = 0 THEN active ELSE completed
      zipped == [i \in 1..Len(comp) |->
                   [key |-> normalize_completed(norm, comp[i]), hyp |-> comp[i]]]
      sorted == SortedDesc(zipped)
  IN IF best THEN <<sorted[1]>> ELSE sorted

(* Variant: the tokens as the backtrace collects them, without reversed(). *)
BeamResultsNotReversed(hyp_and_score) ==
  [i \in 1..Len(hyp_and_score) |->
     SearchOutput(<<Backtrace(hyp_and_score[i].hyp)>>,
                  <<HypScore(hyp_and_score[i].key,
                             <<hyp_and_score[i].hyp.unnormalized>>)>>,
                  <<>>)]

(* Lines 169-190: backtracing and packing. *)
BeamResults(hyp_and_score) ==
  [i \in 1..Len(hyp_and_score) |->
     SearchOutput(<<Reversed(Backtrace(hyp_and_score[i].hyp))>>,
                  <<HypScore(hyp_and_score[i].key,
                             <<hyp_and_score[i].hyp.unnormalized>>)>>,
                  <<>>)]

(* The forced sequences a caller may pass: any ids of the vocabulary. *)
RECURSIVE SeqsUpTo(_, _)
SeqsUpTo(S, n) ==
  IF n = 0 THEN {<<>>}
  ELSE LET shorter == SeqsUpTo(S, n - 1)
       IN shorter \cup {Append(s, x) : s \in {t \in shorter : Len(t) = n - 1}, x \in S}

ForcedSeqs == SeqsUpTo({ES, 2}, MaxForcedLen)

(* One generate_output call; the scorer may answer a history it has seen   *)
(* differently.                                                            *)
SingleCall ==
  /\ det = FALSE /\ memo = {} /\ current_output = <<>> /\ call = 1 /\ first_call = <<>>
  /\ VocabInit

BeamInputs ==
  /\ strategy = "BeamSearch"
  /\ pc = "start"
  /\ err = ""
  /\ max_len \in 0..MaxLen
  /\ beam_size \in 1..MaxBeam
  /\ one_best \in BOOLEAN
  /\ len_norm \in LenNorms
  /\ forced_trg_ids \in {<<>>} \cup {<<f>> : f \in ForcedSeqs}
  /\ batched = FALSE
  /\ batch_size = 1
  /\ scorer_calls = <<>>
  /\ length = 0
  /\ results = <<>>
  /\ active_hyp = <<>>
  /\ completed_hyp = <<>>
  /\ new_set = <<>>
  /\ hyp_idx = 0
  /\ word_ids = <<>> /\ score = <<>> /\ masks = <<>> /\ done = <<>>
  /\ sample_size = 0 /\ k = 0 /\ outputs = <<>> /\ use_forced = FALSE

InitBeam == BeamInputs /\ SingleCall

(* Variant: without the assertion of line 128. *)
NoPrecondition == TRUE

(* Line 128: the assertion; lines 129-130. *)
BeamPrecondition == forced_trg_ids = <<>> \/ beam_size = 1

BeamStart ==
  /\ strategy = "BeamSearch" /\ pc = "start"
  /\ IF BeamPrecondition
     THEN /\ active_hyp' = <<RootHyp>>
          /\ completed_hyp' = <<>>
          /\ length' = 0
          /\ pc' = "loop"
          /\ err' = err
     ELSE /\ pc' = "error"
          /\ err' = "AssertionError"
          /\ UNCHANGED <<active_hyp, completed_hyp, length>>
  /\ UNCHANGED <<vocabVars, inputs, scorer_calls, results, beamParams, new_set, hyp_idx,
                 stepVars, samplingVars, callVars, scorerVars>>

(* Variant: without the test of line 132. *)
ContinuesToMaxLen == length < max_len

(* Lines 131-135: the head of "for length in range(self.max_len)". *)
BeamContinues == length < max_len /\ Len(completed_hyp) < beam_size

BeamLoop ==
  /\ strategy = "BeamSearch" /\ pc = "loop"
  /\ IF BeamContinues
     THEN /\ new_set' = <<>>
          /\ hyp_idx' = 1
          /\ pc' = "expand"
     ELSE /\ pc' = "finalize"
          /\ UNCHANGED <<new_set, hyp_idx>>
  /\ UNCHANGED <<vocabVars, inputs, err, scorer_calls, length, results, beamParams,
                 active_hyp, completed_hyp, stepVars, samplingVars, callVars, scorerVars>>

(* Lines 137-142 *)
PrevWord(hyp, len) == IF len > 0 THEN hyp.word ELSE NoWord

(* Variant: without the end-of-sequence test of line 143. *)
NeverFinished(prev_word) == FALSE

(* Line 143 *)
IsFinished(prev_word) == prev_word = ES

(* Lines 143-145: a finished hypothesis moves to completed_hyp. *)
BeamComplete ==
  /\ strategy = "BeamSearch" /\ pc = "expand"
  /\ hyp_idx <= Len(active_hyp)
  /\ IsFinished(PrevWord(active_hyp[hyp_idx], length))
  /\ completed_hyp' = Append(completed_hyp, active_hyp[hyp_idx])
  /\ hyp_idx' = hyp_idx + 1
  /\ UNCHANGED <<vocabVars, inputs, pc, err, scorer_calls, length, results, beamParams,
                 active_hyp, new_set, stepVars, samplingVars, callVars, scorerVars>>

(* Lines 146-157: one scorer call and the candidates it yields. *)
BeamExpand ==
  /\ strategy = "BeamSearch" /\ pc = "expand"
  /\ hyp_idx <= Len(active_hyp)
  /\ ~IsFinished(PrevWord(active_hyp[hyp_idx], length))
  /\ LET hyp == active_hyp[hyp_idx] IN
     \E logsoftmax \in Answers(Reversed(Backtrace(hyp)), Dists) :
       /\ scorer_calls' = Append(scorer_calls, PrevWord(hyp, length))
       /\ memo' = Remember(Reversed(Backtrace(hyp)), logsoftmax)
       /\ current_output' = <<logsoftmax>>
       /\ IF forced_trg_ids = <<>>
          THEN \E S \in TopWordSets(logsoftmax, beam_size) :
                 /\ new_set' = new_set \o
                      Candidates(hyp, logsoftmax, WordsOf(S, logsoftmax), len_norm, length)
                 /\ hyp_idx' = hyp_idx + 1
                 /\ UNCHANGED <<pc, err>>
          ELSE IF length < Len(forced_trg_ids[1])
               THEN /\ new_set' = new_set \o
                         Candidates(hyp, logsoftmax, <<forced_trg_ids[1][length + 1]>>,
                                    len_norm, length)
                    /\ hyp_idx' = hyp_idx + 1
                    /\ UNCHANGED <<pc, err>>
               ELSE /\ pc' = "error"
                    /\ err' = "IndexError"
                    /\ UNCHANGED <<new_set, hyp_idx>>
  /\ UNCHANGED <<vocabVars, inputs, length, results, beamParams, active_hyp, completed_hyp,
                 stepVars, samplingVars, callVars>>

(* Line 159, and the next value of "length". *)
BeamPrune ==
  /\ strategy = "BeamSearch" /\ pc = "expand"
  /\ hyp_idx > Len(active_hyp)
  /\ active_hyp' = NextActive(new_set, beam_size)
  /\ length' = length + 1
  /\ pc' = "loop"
  /\ UNCHANGED <<vocabVars, inputs, err, scorer_calls, results, beamParams, completed_hyp,
                 new_set, hyp_idx, stepVars, samplingVars, callVars, scorerVars>>

(* Lines 160-190 *)
BeamFinalize ==
  /\ strategy = "BeamSearch" /\ pc = "finalize"
  /\ results' = BeamResults(HypAndScore(completed_hyp, active_hyp, len_norm, one_best))
  /\ completed_hyp' = IF Len(completed_hyp) = 0 THEN active_hyp ELSE completed_hyp
  /\ pc' = "done"
  /\ UNCHANGED <<vocabVars, inputs, err, scorer_calls, length, beamParams, active_hyp,
                 new_set, hyp_idx, stepVars, samplingVars, callVars, scorerVars>>

NextBeam ==
  \/ BeamStart
  \/ BeamLoop
  \/ BeamComplete
  \/ BeamExpand
  \/ BeamPrune
  \/ BeamFinalize

SpecBeam == InitBeam /\ [][NextBeam]_vars

-----------------------------------------------------------------------------
(* GreedySearch *)

BatchSizes == {1, 2}

(* A batch of forced sequences, one per batch element. *)
ForcedBatches == UNION {[1..n -> ForcedSeqs] : n \in BatchSizes}

(* Variant: the first index holding the minimum. *)
ArgMin(logsoftmax) ==
  CHOOSE w \in Vocab :
    /\ \A v \in Vocab : logsoftmax[w] <= logsoftmax[v]
    /\ \A v \in Vocab : logsoftmax[v] = logsoftmax[w] => w <= v

(* np.argmax: the first index holding the maximum. *)
ArgMax(logsoftmax) ==
  CHOOSE w \in Vocab :
    /\ \A v \in Vocab : logsoftmax[w] >= logsoftmax[v]
    /\ \A v \in Vocab : logsoftmax[v] = logsoftmax[w] => w <= v

(* Lines 80 and 82 raise IndexError unless every forced list has a token   *)
(* at position len.                                                        *)
ForcedInRange(forced, is_batched, len) ==
  IF is_batched THEN \A i \in 1..Len(forced) : len < Len(forced[i])
  ELSE len < Len(forced)

(* Lines 74-82: the token of every batch element. *)
GreedyWords(logsoftmax, forced, is_batched, len) ==
  IF forced = <<>> THEN [i \in 1..Len(logsoftmax) |-> ArgMax(logsoftmax[i])]
  ELSE IF is_batched THEN [i \in 1..Len(forced[1]) |-> forced[1][i][len + 1]]
  ELSE <<forced[1][len + 1]>>

(* dy.pick_batch *)
PickBatch(logsoftmax, word_id) ==
  [i \in 1..Len(word_id) |-> logsoftmax[i][word_id[i]]]

(* Lines 85 and 242 *)
MaskWords(word_id, is_done) ==
  [i \in 1..Len(is_done) |-> IF ~is_done[i] THEN word_id[i] ELSE ES]

(* Lines 87 and 244 *)
MaskOf(is_done) == [i \in 1..Len(is_done) |-> IF ~is_done[i] THEN 1 ELSE 0]

(* dy.cmult *)
CMult(a, b) == [i \in 1..Len(a) |-> a[i] * b[i]]

(* Lines 97 and 256 *)
DoneOf(word_id) == [i \in 1..Len(word_id) |-> word_id[i] = ES]

All(flags) == \A i \in 1..Len(flags) : flags[i]

(* Variant: without the insertion of lines 100 and 262. *)
WithoutFirstMask(all_masks, is_done) == all_masks

(* Lines 100 and 262: masks.insert(0, [1 for _ in range(len(done))]) *)
WithFirstMask(all_masks, is_done) ==
  <<[i \in 1..Len(is_done) |-> 1]>> \o all_masks

(* np.stack(word_ids, axis=1): the token sequence of every batch element. *)
Stack(words, n) == [i \in 1..n |-> [t \in 1..Len(words) |-> words[t][i]]]

(* np.sum(score, axis=0) and dy.esum: the summed score of every element. *)
SumColumns(scores, n) ==
  [i \in 1..n |-> SumSeq([t \in 1..Len(scores) |-> scores[t][i]])]

(* Variant: without the masking of lines 84-86. *)
MaskedWordsUnmasked(word_id, was_done) == word_id

(* Lines 84-89 and 241-246: the step's tokens, scores and mask after the   *)
(* elements that were done at the previous step have been masked.          *)
MaskedWords(word_id, was_done) ==
  IF was_done # <<>> THEN MaskWords(word_id, was_done[1]) ELSE word_id

(* Variant: without the masking of lines 87-88. *)
MaskedLogsoftUnmasked(logsoft, was_done) == logsoft

MaskedLogsoft(logsoft, was_done) ==
  IF was_done # <<>> THEN CMult(logsoft, MaskOf(was_done[1])) ELSE logsoft

MasksAfter(all_masks, was_done) ==
  IF was_done # <<>> THEN Append(all_masks, MaskOf(was_done[1])) ELSE all_masks

(* Line 103 *)
GreedyResults(words, scores, all_masks, is_done) ==
  <<SearchOutput(Stack(words, Len(is_done)),
                 HypScore(SumColumns(scores, Len(is_done)), <<>>),
                 WithFirstMask(all_masks, is_done))>>

GreedyInputs ==
  /\ strategy = "GreedySearch"
  /\ pc = "start"
  /\ err = ""
  /\ max_len \in 0..MaxLen
  /\ \/ /\ forced_trg_ids = <<>>
        /\ batched = FALSE
        /\ batch_size \in BatchSizes
     \/ /\ forced_trg_ids \in {<<f>> : f \in ForcedSeqs}
        /\ batched = FALSE
        /\ batch_size = 1
     \/ /\ forced_trg_ids \in {<<f>> : f \in ForcedBatches}
        /\ batched = TRUE
        /\ batch_size = Len(forced_trg_ids[1])
  /\ scorer_calls = <<>>
  /\ length = 0
  /\ results = <<>>
  /\ beam_size = 1 /\ one_best = TRUE /\ len_norm = "NoNormalization"
  /\ active_hyp = <<>> /\ completed_hyp = <<>> /\ new_set = <<>> /\ hyp_idx = 0
  /\ word_ids = <<>> /\ score = <<>> /\ masks = <<>> /\ done = <<>>
  /\ sample_size = 0 /\ k = 0 /\ outputs = <<>> /\ use_forced = FALSE

InitGreedy == GreedyInputs /\ SingleCall

(* Lines 59-69 *)
GreedyStart ==
  /\ strategy = "GreedySearch" /\ pc = "start"
  /\ word_ids' = <<>> /\ score' = <<>> /\ masks' = <<>> /\ done' = <<>>
  /\ length' = 0
  /\ pc' = "loop"
  /\ UNCHANGED <<vocabVars, inputs, err, scorer_calls, results, beamParams, beamVars,
                 samplingVars, callVars, scorerVars>>

(* Lines 70-99: one pass of "for length in range(self.max_len)". *)
GreedyStep ==
  /\ strategy = "GreedySearch" /\ pc = "loop"
  /\ length < max_len
  /\ \E logsoftmax \in Answers(word_ids, [1..batch_size -> Dists]) :
       /\ scorer_calls' = Append(scorer_calls,
                                 IF length > 0 THEN word_ids[length] ELSE <<>>)
       /\ memo' = Remember(word_ids, logsoftmax)
       /\ current_output' = <<logsoftmax>>
       /\ IF forced_trg_ids # <<>> /\ ~ForcedInRange(forced_trg_ids[1], batched, length)
          THEN /\ pc' = "error"
               /\ err' = "IndexError"
               /\ UNCHANGED <<length, stepVars>>
          ELSE LET chosen == GreedyWords(logsoftmax, forced_trg_ids, batched, length)
                   logsoft == PickBatch(logsoftmax, chosen)
                   word_id == MaskedWords(chosen, done)
               IN /\ masks' = MasksAfter(masks, done)
                  /\ score' = Append(score, MaskedLogsoft(logsoft, done))
                  /\ word_ids' = Append(word_ids, word_id)
                  /\ done' = <<DoneOf(word_id)>>
                  /\ IF All(DoneOf(word_id))
                     THEN pc' = "pack" /\ length' = length
                     ELSE pc' = "loop" /\ length' = length + 1
                  /\ err' = err
  /\ UNCHANGED <<vocabVars, inputs, results, beamParams, beamVars, samplingVars, callVars>>

(* The loop ends after max_len passes. *)
GreedyLoopEnd ==
  /\ strategy = "GreedySearch" /\ pc = "loop"
  /\ length >= max_len
  /\ pc' = "pack"
  /\ UNCHANGED <<vocabVars, inputs, err, scorer_calls, length, results, beamParams, beamVars,
                 stepVars, samplingVars, callVars, scorerVars>>

(* Lines 100-103; len(done) raises TypeError when the loop never ran. *)
GreedyPack ==
  /\ strategy = "GreedySearch" /\ pc = "pack"
  /\ IF done = <<>>
     THEN /\ pc' = "error"
          /\ err' = "TypeError"
          /\ UNCHANGED <<results, masks>>
     ELSE /\ results' = GreedyResults(word_ids, score, masks, done[1])
          /\ masks' = WithFirstMask(masks, done[1])
          /\ pc' = "done"
          /\ err' = err
  /\ UNCHANGED <<vocabVars, inputs, scorer_calls, length, beamParams, beamVars,
                 word_ids, score, done, samplingVars, callVars, scorerVars>>

NextGreedy ==
  \/ GreedyStart
  \/ GreedyStep
  \/ GreedyLoopEnd
  \/ GreedyPack

SpecGreedy == InitGreedy /\ [][NextGreedy]_vars

-----------------------------------------------------------------------------
(* SamplingSearch *)

(* The values of max_length, and the bound on the tokens drawn per step    *)
(* over all samples of a call (batch elements times samples).              *)
SampleLens == {1, 2}
MaxSamples == 2

(* Line 239: every forced list is read as one batch element; past its end  *)
(* the token is end-of-sequence.                                           *)
ForcedSample(forced, len) ==
  [i \in 1..Len(forced) |->
     IF Len(forced[i]) > len THEN forced[i][len + 1] ELSE ES]

(* Line 235: categorical_sample_log_prob may draw any token for any        *)
(* element.                                                                *)
FreeSamples(n) == [1..n -> Vocab]

(* Line 264 *)
SampleOutput(words, scores, all_masks, is_done) ==
  SearchOutput(Stack(words, Len(is_done)),
               HypScore(SumColumns(scores, Len(is_done)), <<>>),
               WithFirstMask(all_masks, is_done))

(* Variant: no sample is given the forced tokens. *)
SampleNeverForced(index, forced) == FALSE

(* Line 213: which samples are given forced_trg_ids. *)
SampleIsForced(index, forced) == index = 0 /\ forced # <<>>

SamplingInputs ==
  /\ strategy = "SamplingSearch"
  /\ pc = "start"
  /\ err = ""
  /\ max_len \in SampleLens
  /\ sample_size \in 0..MaxSamples
  /\ \/ /\ forced_trg_ids = <<>>
        /\ batched = FALSE
        /\ batch_size \in BatchSizes
     \/ /\ forced_trg_ids \in {<<f>> : f \in ForcedSeqs \ {<<>>}}
        /\ batched = FALSE
        /\ batch_size = 1
     \/ /\ forced_trg_ids \in {<<f>> : f \in ForcedBatches}
        /\ batched = TRUE
        /\ batch_size = Len(forced_trg_ids[1])
  /\ batch_size * sample_size <= MaxSamples
  /\ scorer_calls = <<>>
  /\ length = 0
  /\ results = <<>>
  /\ beam_size = 1 /\ one_best = TRUE /\ len_norm = "NoNormalization"
  /\ active_hyp = <<>> /\ completed_hyp = <<>> /\ new_set = <<>> /\ hyp_idx = 0
  /\ word_ids = <<>> /\ score = <<>> /\ masks = <<>> /\ done = <<>>
  /\ k = 0 /\ outputs = <<>> /\ use_forced = FALSE

InitSampling == SamplingInputs /\ SingleCall

(* Line 211 *)
SamplingStart ==
  /\ strategy = "SamplingSearch" /\ pc = "start"
  /\ outputs' = <<>>
  /\ k' = 0
  /\ pc' = "samples"
  /\ UNCHANGED <<vocabVars, inputs, err, scorer_calls, length, results, beamParams, beamVars,
                 stepVars, sample_size, use_forced, callVars, scorerVars>>

(* Lines 212-216 and 221-230: the next sample_one call begins. *)
SampleOneStart ==
  /\ strategy = "SamplingSearch" /\ pc = "samples"
  /\ k < sample_size
  /\ use_forced' = SampleIsForced(k, forced_trg_ids)
  /\ word_ids' = <<>> /\ score' = <<>> /\ masks' = <<>> /\ done' = <<>>
  /\ length' = 0
  /\ pc' = "loop"
  /\ UNCHANGED <<vocabVars, inputs, err, scorer_calls, results, beamParams, beamVars,
                 sample_size, k, outputs, callVars, scorerVars>>

(* Lines 232-259: one pass of "for length in range(self.max_length)".      *)
(* len(forced_trg) raises TypeError when forced_trg_ids is a plain list of *)
(* ids.                                                                    *)
SampleStep ==
  /\ strategy = "SamplingSearch" /\ pc = "loop"
  /\ length < max_len
  /\ \E logsoftmax \in Answers(word_ids, [1..batch_size -> Dists]) :
       /\ scorer_calls' = Append(scorer_calls,
                                 IF length > 0 THEN word_ids[length] ELSE <<>>)
       /\ memo' = Remember(word_ids, logsoftmax)
       /\ current_output' = <<logsoftmax>>
       /\ IF use_forced /\ ~batched
          THEN /\ pc' = "error"
               /\ err' = "TypeError"
               /\ UNCHANGED <<length, stepVars>>
          ELSE \E chosen \in IF use_forced
                             THEN {ForcedSample(forced_trg_ids[1], length)}
                             ELSE FreeSamples(batch_size) :
                 LET logsoft == PickBatch(logsoftmax, chosen)
                     sample == MaskedWords(chosen, done)
                 IN /\ masks' = MasksAfter(masks, done)
                    /\ score' = Append(score, MaskedLogsoft(logsoft, done))
                    /\ word_ids' = Append(word_ids, sample)
                    /\ done' = <<DoneOf(sample)>>
                    /\ IF All(DoneOf(sample))
                       THEN pc' = "pack" /\ length' = length
                       ELSE pc' = "loop" /\ length' = length + 1
                    /\ err' = err
  /\ UNCHANGED <<vocabVars, inputs, results, beamParams, beamVars, samplingVars, callVars>>

(* The loop ends after max_length passes. *)
SampleLoopEnd ==
  /\ strategy = "SamplingSearch" /\ pc = "loop"
  /\ length >= max_len
  /\ pc' = "pack"
  /\ UNCHANGED <<vocabVars, inputs, err, scorer_calls, length, results, beamParams, beamVars,
                 stepVars, samplingVars, callVars, scorerVars>>

(* Lines 260-264 and outputs.append of lines 214 and 216. *)
SamplePack ==
  /\ strategy = "SamplingSearch" /\ pc = "pack"
  /\ outputs' = Append(outputs, SampleOutput(word_ids, score, masks, done[1]))
  /\ masks' = WithFirstMask(masks, done[1])
  /\ k' = k + 1
  /\ pc' = "samples"
  /\ UNCHANGED <<vocabVars, inputs, err, scorer_calls, length, results, beamParams, beamVars,
                 word_ids, score, done, sample_size, use_forced, callVars, scorerVars>>

(* Line 217 *)
SamplingReturn ==
  /\ strategy = "SamplingSearch" /\ pc = "samples"
  /\ k >= sample_size
  /\ results' = outputs
  /\ pc' = "done"
  /\ UNCHANGED <<vocabVars, inputs, err, scorer_calls, length, beamParams, beamVars,
                 stepVars, samplingVars, callVars, scorerVars>>

NextSampling ==
  \/ SamplingStart
  \/ SampleOneStart
  \/ SampleStep
  \/ SampleLoopEnd
  \/ SamplePack
  \/ SamplingReturn

SpecSampling == InitSampling /\ [][NextSampling]_vars

-----------------------------------------------------------------------------
(* Two generate_output calls, one after the other, on the same strategy    *)
(* object, with the same forced_trg_ids (a list of ids, or a batch of one  *)
(* list) and the same deterministic scorer.                                *)

Outcome == [results |-> results, err |-> err]

(* The sample sizes of a repeated call: the forced sample and at most one  *)
(* freely drawn sample.                                                    *)
TwiceSamples == {0, 1, 2}

InitTwice ==
  /\ \/ GreedyInputs
     \/ BeamInputs /\ beam_size = 1
     \/ SamplingInputs
  /\ forced_trg_ids # <<>>
  /\ batch_size = 1
  /\ sample_size \in TwiceSamples
  /\ det = TRUE /\ memo = {} /\ current_output = <<>> /\ call = 1 /\ first_call = <<>>
  /\ VocabInit

(* The first call has returned or raised; the caller calls again. *)
SecondCall ==
  /\ call = 1
  /\ pc \in {"done", "error"}
  /\ first_call' = <<Outcome>>
  /\ call' = 2
  /\ pc' = "start"
  /\ err' = ""
  /\ results' = <<>>
  /\ scorer_calls' = <<>>
  /\ length' = 0
  /\ UNCHANGED <<vocabVars, inputs, beamParams, beamVars, stepVars, samplingVars, det, memo>>
  /\ current_output' = <<>>

NextTwice ==
  \/ NextGreedy
  \/ NextBeam
  \/ NextSampling
  \/ SecondCall

SpecTwice == InitTwice /\ [][NextTwice]_vars

-----------------------------------------------------------------------------
(* GreedySearch and then BeamSearch with beam_size = 1 and no length       *)
(* normalization, on the same unbatched input: the same max_len, no forced *)
(* target and the same deterministic scorer.  Every distribution of Dists  *)
(* has a unique maximum.                                                   *)

InitEquiv ==
  /\ GreedyInputs
  /\ forced_trg_ids = <<>>
  /\ batch_size = 1
  /\ det = TRUE /\ memo = {} /\ current_output = <<>> /\ call = 1 /\ first_call = <<>>
  /\ VocabInit

(* GreedySearch calls the scorer with the tokens of a batch of one (line   *)
(* 71) and reads a batch of one distribution; BeamSearch calls it with a   *)
(* token (line 138) and reads one distribution (line 147).                 *)
ScorerForBeam(answered) ==
  {<<[t \in 1..Len(p[1]) |-> p[1][t][1]], p[2][1]>> : p \in answered}

(* GreedySearch has returned or raised; the caller runs BeamSearch. *)
ThenBeam ==
  /\ call = 1
  /\ strategy = "GreedySearch"
  /\ pc \in {"done", "error"}
  /\ first_call' = <<Outcome>>
  /\ call' = 2
  /\ strategy' = "BeamSearch"
  /\ beam_size' = 1
  /\ len_norm' = "NoNormalization"
  /\ one_best' \in BOOLEAN
  /\ memo' = ScorerForBeam(memo)
  /\ current_output' = <<>>
  /\ pc' = "start"
  /\ err' = ""
  /\ results' = <<>>
  /\ scorer_calls' = <<>>
  /\ length' = 0
  /\ UNCHANGED <<vocabVars, max_len, forced_trg_ids, batched, batch_size, beamVars, stepVars,
                 samplingVars, det>>

NextEquiv ==
  \/ NextGreedy
  \/ NextBeam
  \/ ThenBeam

SpecEquiv == InitEquiv /\ [][NextEquiv]_vars

-----------------------------------------------------------------------------
(* A scorer that may fail: translator.output_one_step raises.  None of the *)
(* calls (lines 72, 146 and 233) is inside a try statement.                *)

(* The search is about to call the scorer. *)
CallsScorer ==
  \/ /\ strategy \in {"GreedySearch", "SamplingSearch"}
     /\ pc = "loop" /\ length < max_len
  \/ /\ strategy = "BeamSearch"
     /\ pc = "expand" /\ hyp_idx <= Len(active_hyp)
     /\ ~IsFinished(PrevWord(active_hyp[hyp_idx], length))

(* The previous word(s) the call is made with. *)
PrevWordOfCall ==
  IF strategy = "BeamSearch" THEN PrevWord(active_hyp[hyp_idx], length)
  ELSE IF length > 0 THEN word_ids[length] ELSE <<>>

(* Variant: the search stays where it is and may take the step again. *)
RetryAfterFailure == pc

(* Where generate_output is after the scorer raised: the exception leaves  *)
(* every loop and the call.                                                *)
OnScorerFailure == "error"

ScorerFails ==
  /\ CallsScorer
  /\ scorer_calls' = Append(scorer_calls, PrevWordOfCall)
  /\ pc' = OnScorerFailure
  /\ err' = "ScorerError"
  /\ UNCHANGED <<vocabVars, inputs, length, results, beamParams, beamVars, stepVars,
                 samplingVars, callVars, scorerVars>>

InitFailing ==
  /\ \/ GreedyInputs
     \/ BeamInputs /\ one_best /\ len_norm = "NoNormalization"
     \/ SamplingInputs
  /\ SingleCall

NextFailing ==
  \/ NextGreedy
  \/ NextBeam
  \/ NextSampling
  \/ ScorerFails

SpecFailing == InitFailing /\ [][NextFailing]_vars

-----------------------------------------------------------------------------
(* The two strategies that run one step for a whole batch: GreedySearch    *)
(* and SamplingSearch.                                                     *)

InitStepwise == InitGreedy \/ InitSampling

NextStepwise ==
  \/ NextGreedy
  \/ NextSampling

SpecStepwise == InitStepwise /\ [][NextStepwise]_vars

-----------------------------------------------------------------------------
(* Vocab (xnmt/vocab.py), created without arguments, under any sequence of  *)
(* convert, freeze and set_unk calls.  A call that raises leaves the object *)
(* as it was, and the caller may go on using it.                            *)

(* The words a caller may pass: the reserved strings and two ordinary ones. *)
Words == {SS_STR, ES_STR, UNK_STR, "a", "b"}

(* "w in self.w2i" (Vocab.__contains__, and line 61 of convert). *)
Contains(w) == w \in DOMAIN w2i

(* Lines 65-66 and 95-96: self.w2i[w] = len(self.i2w); self.i2w.append(w). *)
AddWord(w) ==
  /\ w2i' = w2i @@ (w :> Len(i2w))
  /\ i2w' = Append(i2w, w)

(* Variant: convert never takes the frozen branch. *)
NeverReturnsUnk(w) == FALSE

(* Lines 61-62: convert leaves by the frozen branch instead of adding w. *)
ReturnsUnk(w) == ~Contains(w) /\ frozen

(* Lines 60-67: convert(w). *)
VocabConvert(w) ==
  /\ IF ReturnsUnk(w)
     THEN /\ UNCHANGED <<w2i, i2w>>
          /\ IF unk_token # <<>>
             THEN vocab_call' = [op |-> "convert", w |-> w, ret |-> unk_token, err |-> ""]
             ELSE vocab_call' = [op |-> "convert", w |-> w, ret |-> <<>>,
                                 err |-> "AssertionError"]
     ELSE /\ IF Contains(w) THEN UNCHANGED <<w2i, i2w>> ELSE AddWord(w)
          /\ vocab_call' = [op |-> "convert", w |-> w, ret |-> <<w2i'[w]>>, err |-> ""]
  /\ UNCHANGED <<frozen, unk_token>>

(* Lines 81-85: freeze(). *)
VocabFreeze ==
  /\ frozen' = TRUE
  /\ vocab_call' = [op |-> "freeze", w |-> "", ret |-> <<>>, err |-> ""]
  /\ UNCHANGED <<w2i, i2w, unk_token>>

(* Lines 87-98: set_unk(w). *)
VocabSetUnk(w) ==
  IF ~frozen
  THEN /\ vocab_call' = [op |-> "set_unk", w |-> w, ret |-> <<>>, err |-> "AssertionError"]
       /\ UNCHANGED <<w2i, i2w, frozen, unk_token>>
  ELSE /\ IF Contains(w) THEN UNCHANGED <<w2i, i2w>> ELSE AddWord(w)
       /\ unk_token' = <<w2i'[w]>>
       /\ vocab_call' = [op |-> "set_unk", w |-> w, ret |-> <<>>, err |-> ""]
       /\ UNCHANGED frozen

(* No search runs while the vocabulary is used. *)
NoSearch ==
  /\ strategy = "" /\ pc = "idle" /\ err = ""
  /\ max_len = 0 /\ forced_trg_ids = <<>> /\ batched = FALSE /\ batch_size = 1
  /\ scorer_calls = <<>> /\ length = 0 /\ results = <<>>
  /\ beam_size = 1 /\ one_best = TRUE /\ len_norm = "NoNormalization"
  /\ active_hyp = <<>> /\ completed_hyp = <<>> /\ new_set = <<>> /\ hyp_idx = 0
  /\ word_ids = <<>> /\ score = <<>> /\ masks = <<>> /\ done = <<>>
  /\ sample_size = 1 /\ k = 0 /\ outputs = <<>> /\ use_forced = FALSE

searchVars == <<inputs, pc, err, scorer_calls, length, results, beamParams, beamVars,
                stepVars, samplingVars, callVars, scorerVars>>

InitVocab == NoSearch /\ SingleCall

Convert == \E w \in Words : VocabConvert(w) /\ UNCHANGED searchVars

Freeze == VocabFreeze /\ UNCHANGED searchVars

SetUnk == \E w \in Words : VocabSetUnk(w) /\ UNCHANGED searchVars

NextVocab ==
  \/ Convert
  \/ Freeze
  \/ SetUnk

SpecVocab == InitVocab /\ [][NextVocab]_vars

-----------------------------------------------------------------------------
(* Properties of BeamSearch.generate_output *)

IsBeam == strategy = "BeamSearch"

Returned == pc = "done"

(* The tokens of a returned SearchOutput of BeamSearch (a batch of one). *)
TokensOf(out) == out.word_ids[1]

NormalizedOf(out) == out.score[1].normalized

UnnormalizedOf(out) == out.score[1].unnormalized

SortedByNormalized(outs) ==
  \A i \in 1..Len(outs) - 1 : NormalizedOf(outs[i]) >= NormalizedOf(outs[i + 1])

(* The forced sequence cut after its first end-of-sequence token. *)
RECURSIVE TrimAfterES(_)
TrimAfterES(s) ==
  IF s = <<>> THEN <<>>
  ELSE IF Head(s) = ES THEN <<ES>>
  ELSE <<Head(s)>> \o TrimAfterES(Tail(s))

HasES(s) == \E i \in 1..Len(s) : s[i] = ES

Range(s) == {s[i] : i \in 1..Len(s)}

LiveHyps == Range(active_hyp) \cup Range(completed_hyp) \cup Range(new_set)

C3_ForcedExact ==
  (IsBeam /\ beam_size = 1 /\ forced_trg_ids # <<>> /\ pc \in {"done", "error"}) =>
    /\ pc = "done"
    /\ Len(results) = 1
    /\ TokensOf(results[1]) = TrimAfterES(forced_trg_ids[1])

(* C5: a hypothesis whose last token is end-of-sequence is never expanded: *)
(* no scorer call has end-of-sequence as its previous word, and no         *)
(* hypothesis has a parent whose word is end-of-sequence (every hypothesis *)
(* is in new_set in the state that follows its creation).                  *)
C5_FinishedNeverExpanded ==
  IsBeam =>
    /\ \A i \in 1..Len(scorer_calls) : scorer_calls[i] # ES
    /\ \A h \in LiveHyps : h.parent # <<>> => h.parent[1].word # ES

(* C5 witness: a finished hypothesis was moved to completed_hyp while      *)
(* another hypothesis of the same step was expanded.                       *)
C5_Witness ==
  /\ IsBeam /\ pc = "expand"
  /\ \E i \in 1..Len(completed_hyp) : completed_hyp[i].word = ES
  /\ new_set # <<>>

(* C6: with forced_trg_ids present and beam_size > 1 the call fails with   *)
(* the precondition error before any scorer call and returns nothing.      *)
C6_ForcedNeedsBeamOne ==
  (IsBeam /\ forced_trg_ids # <<>> /\ beam_size > 1 /\ pc # "start") =>
    /\ pc = "error" /\ err = "AssertionError"
    /\ scorer_calls = <<>>
    /\ results = <<>>

(* C6 witness: a call with a forced sequence and beam_size > 1 has failed. *)
C6_Witness ==
  /\ IsBeam /\ forced_trg_ids # <<>> /\ beam_size > 1
  /\ pc = "error" /\ err = "AssertionError"

C10_RawScoreKept ==
  (IsBeam /\ Returned) =>
    \A i \in 1..Len(results) :
      \E j \in 1..Len(completed_hyp) :
        /\ TokensOf(results[i]) = Reversed(Backtrace(completed_hyp[j]))
        /\ UnnormalizedOf(results[i]) = completed_hyp[j].unnormalized
        /\ NormalizedOf(results[i]) = normalize_completed(len_norm, completed_hyp[j])

(* C14 as stated: every hypothesis whose last token is end-of-sequence and *)
(* that entered the active frontier has been moved to the completed set    *)
(* when the search returns (a hypothesis enters the frontier at the end of *)
(* a step and is moved at the next, so only the last frontier may hold     *)
(* one).                                                                   *)
C14_FinishedAreCompleted ==
  (IsBeam /\ Returned) =>
    \A i \in 1..Len(active_hyp) :
      active_hyp[i].word = ES => active_hyp[i] \in Range(completed_hyp)

BeamIsFull == Len(completed_hyp) >= beam_size

(* C15: once completed_hyp holds at least beam_size hypotheses at the      *)
(* start of a step, the loop stops and the call goes on to return: from    *)
(* then on no scorer call is made and neither the active frontier nor the  *)
(* completed set changes; and a step only runs while fewer than max_len    *)
(* steps have run.                                                         *)
C15_StopsWhenFull ==
  /\ []((IsBeam /\ pc = "expand") => length < max_len)
  /\ []((IsBeam /\ pc # "start") => length <= max_len)
  /\ [][(IsBeam /\ pc \in {"loop", "finalize", "done"} /\ BeamIsFull) =>
          /\ pc' \in {"finalize", "done"}
          /\ UNCHANGED <<scorer_calls, active_hyp, completed_hyp, length>>]_vars

(* C15 witness: the loop stopped before max_len because beam_size          *)
(* hypotheses were complete, with an unfinished hypothesis in the          *)
(* frontier.                                                               *)
C15_Witness ==
  /\ IsBeam /\ pc = "finalize" /\ BeamIsFull
  /\ length < max_len
  /\ \E i \in 1..Len(active_hyp) : active_hyp[i].word # ES

(* How many times hypothesis h occurs in the list hyps. *)
Count(hyps, h) == Cardinality({i \in 1..Len(hyps) : hyps[i] = h})

(* The list top holds the size best-scoring hypotheses of cands (all of    *)
(* them if there are fewer), best first.                                   *)
IsTopOf(top, cands, size) ==
  /\ Len(top) = Min(size, Len(cands))
  /\ \A i \in 1..Len(top) - 1 : top[i].score >= top[i + 1].score
  /\ \A i \in 1..Len(top) : Count(top, top[i]) <= Count(cands, top[i])
  /\ \A j \in 1..Len(cands) : \A i \in 1..Len(top) :
       cands[j].score > top[i].score => Count(top, cands[j]) = Count(cands, cands[j])

(* C16: the active frontier never holds more than beam_size hypotheses,    *)
(* and the frontier a step leaves is the beam_size candidates of highest   *)
(* normalized score (all candidates if there are fewer) among the          *)
(* candidates of all the hypotheses expanded in that step, in descending   *)
(* order of score: no candidate left out scores higher than one kept.      *)
C16_FrontierIsTop ==
  /\ [](IsBeam => Len(active_hyp) <= beam_size)
  /\ [][(IsBeam /\ pc = "expand" /\ pc' = "loop") =>
          IsTopOf(active_hyp', new_set, beam_size)]_vars

(* C16 witness: a step that expanded two hypotheses left a frontier whose  *)
(* hypotheses all have the same parent, and dropped candidates.            *)
C16_Witness ==
  /\ IsBeam /\ pc = "loop" /\ length >= 2
  /\ Len(active_hyp) >= 2 /\ Len(new_set) > beam_size
  /\ \A i \in 1..Len(active_hyp) : active_hyp[i].parent = active_hyp[1].parent
  /\ \E j \in 1..Len(new_set) : new_set[j].parent # active_hyp[1].parent

(* The next step expands the hypothesis at hyp_idx. *)
ExpandsHyp ==
  /\ IsBeam /\ pc = "expand" /\ hyp_idx <= Len(active_hyp)
  /\ PrevWord(active_hyp[hyp_idx], length) # ES

(* C17 as stated: expanding a hypothesis makes exactly one scorer call and *)
(* appends its candidates: under free decoding min(beam_size, vocabulary   *)
(* size) of them, for distinct tokens none of which has a lower            *)
(* log-probability in the answer of that call than a token left out; under *)
(* forced decoding exactly one, for the forced token of the current step.  *)
C17_ExpansionCandidates ==
  [][ExpandsHyp =>
       LET hyp == active_hyp[hyp_idx]
           new == SubSeq(new_set', Len(new_set) + 1, Len(new_set'))
           words == {new[i].word : i \in 1..Len(new)}
       IN /\ Len(scorer_calls') = Len(scorer_calls) + 1
          /\ SubSeq(new_set', 1, Len(new_set)) = new_set
          /\ \A i \in 1..Len(new) : new[i].parent = <<hyp>>
          /\ IF forced_trg_ids = <<>>
             THEN /\ Len(new) = Min(beam_size, Cardinality(Vocab))
                  /\ Cardinality(words) = Len(new)
                  /\ \A a \in words : \A b \in Vocab \ words :
                       current_output'[1][a] >= current_output'[1][b]
             ELSE /\ Len(new) = 1
                  /\ length < Len(forced_trg_ids[1])
                  /\ new[1].word = forced_trg_ids[1][length + 1]
     ]_vars

(* The output was built from the hypothesis. *)
OutputOf(out, hyp) ==
  /\ TokensOf(out) = Reversed(Backtrace(hyp))
  /\ NormalizedOf(out) = normalize_completed(len_norm, hyp)

(* C18: with one_best the call returns exactly one output, built from a    *)
(* completed hypothesis whose normalize_completed score is maximal among   *)
(* the completed hypotheses; without it, one output for every completed    *)
(* hypothesis and no other (the completed hypotheses being the last        *)
(* frontier when none was completed).                                      *)
C18_BestOrAll ==
  (IsBeam /\ Returned) =>
    IF one_best
    THEN /\ Len(results) = 1
         /\ \E j \in 1..Len(completed_hyp) :
              /\ OutputOf(results[1], completed_hyp[j])
              /\ \A m \in 1..Len(completed_hyp) :
                   normalize_completed(len_norm, completed_hyp[j])
                     >= normalize_completed(len_norm, completed_hyp[m])
    ELSE /\ Len(results) = Len(completed_hyp)
         /\ \A j \in 1..Len(completed_hyp) :
              \E i \in 1..Len(results) : OutputOf(results[i], completed_hyp[j])
         /\ \A i \in 1..Len(results) :
              \E j \in 1..Len(completed_hyp) : OutputOf(results[i], completed_hyp[j])

(* C18 witness: with one_best, the output is for a hypothesis that was     *)
(* completed after one of lower final score.                               *)
C18_Witness ==
  /\ IsBeam /\ Returned /\ one_best
  /\ Len(completed_hyp) >= 2
  /\ normalize_completed(len_norm, completed_hyp[1]) < NormalizedOf(results[1])

(* The number of parent links from hyp to the root. *)
RECURSIVE Depth(_)
Depth(hyp) == IF hyp.parent = <<>> THEN 0 ELSE 1 + Depth(hyp.parent[1])

(* The tokens along the parent chain of hyp, the one next to the root      *)
(* first.                                                                  *)
RECURSIVE Chronological(_)
Chronological(hyp) ==
  IF hyp.parent = <<>> THEN <<>>
  ELSE Append(Chronological(hyp.parent[1]), hyp.word)

(* C21: every hypothesis created at step t (the first step is step 0) has  *)
(* a hypothesis of the frontier of that step as parent and a chain of      *)
(* t + 1 parent links to the root; the frontier of step t holds            *)
(* hypotheses of t links; and the tokens returned for a hypothesis are the *)
(* tokens along its chain, the one next to the root first, as many as the  *)
(* chain has links.                                                        *)
C21_ChainIsHistory ==
  IsBeam =>
    /\ pc \in {"loop", "expand"} =>
         \A i \in 1..Len(active_hyp) : Depth(active_hyp[i]) = length
    /\ pc = "expand" =>
         \A i \in 1..Len(new_set) :
           /\ Depth(new_set[i]) = length + 1
           /\ \E j \in 1..Len(active_hyp) : new_set[i].parent = <<active_hyp[j]>>
    /\ \A i \in 1..Len(completed_hyp) : Depth(completed_hyp[i]) <= length
    /\ Returned =>
         \A i \in 1..Len(results) :
           \E j \in 1..Len(completed_hyp) :
             /\ TokensOf(results[i]) = Chronological(completed_hyp[j])
             /\ Len(TokensOf(results[i])) = Depth(completed_hyp[j])
             /\ NormalizedOf(results[i]) = normalize_completed(len_norm, completed_hyp[j])

(* C21 witness: the call returned three tokens, the first of them not the  *)
(* last.                                                                   *)
C21_Witness ==
  /\ IsBeam /\ Returned
  /\ \E i \in 1..Len(results) :
       /\ Len(TokensOf(results[i])) = 3
       /\ TokensOf(results[i])[1] # TokensOf(results[i])[3]

-----------------------------------------------------------------------------
(* Properties of GreedySearch.generate_output *)

IsGreedy == strategy = "GreedySearch"

Finished == pc \in {"done", "error"}

(* C2 as stated: for every positive max_len GreedySearch.generate_output   *)
(* returns exactly one SearchOutput, and the token sequence of every batch *)
(* element has at most max_len tokens.                                     *)
C2_GreedyReturnsOne ==
  (IsGreedy /\ max_len >= 1 /\ Finished) =>
    /\ pc = "done"
    /\ Len(results) = 1
    /\ \A i \in 1..Len(results[1].word_ids) : Len(results[1].word_ids[i]) <= max_len

(* The mask recorded for step t (t = 1 is the first step) of element i:    *)
(* the mask of the first step is inserted when the result is packed.       *)
RecordedMask(t, i) == IF pc = "done" THEN masks[t][i] ELSE masks[t - 1][i]

(* C4: once a batch element has emitted end-of-sequence at some step, its  *)
(* recorded token at every later step is end-of-sequence and its recorded  *)
(* mask at every later step is 0, in the running call and in the result.   *)
C4_DoneStaysDone ==
  (IsGreedy /\ pc \in {"loop", "pack", "done"}) =>
    \A t \in 1..Len(word_ids) : \A m \in 1..Len(word_ids) : \A i \in 1..batch_size :
      (t < m /\ word_ids[t][i] = ES) =>
        /\ word_ids[m][i] = ES
        /\ RecordedMask(m, i) = 0
        /\ pc = "done" => /\ results[1].word_ids[i][m] = ES
                          /\ results[1].mask[m][i] = 0

(* C4 witness: a returned batch in which an element ended at the first     *)
(* step, the forced token of its second step was not end-of-sequence, and  *)
(* the other element went on.                                              *)
C4_Witness ==
  /\ IsGreedy /\ pc = "done" /\ batched /\ batch_size = 2
  /\ Len(word_ids) >= 2
  /\ \E i \in 1..2 : /\ forced_trg_ids[1][i][1] = ES
                     /\ forced_trg_ids[1][i][2] # ES
                     /\ results[1].mask[2][i] = 0

(* The first step count at which the recorded token of every batch element *)
(* is end-of-sequence; max_len stands for "never" (any count >= max_len    *)
(* leaves the minimum with max_len unchanged).                             *)
StepsToAllDone ==
  LET ends == {t \in 1..Len(word_ids) : All(DoneOf(word_ids[t]))}
  IN IF ends = {} THEN max_len ELSE CHOOSE t \in ends : \A u \in ends : t <= u

(* C11 as stated: GreedySearch.generate_output calls the scorer exactly    *)
(* min(max_len, s) times, s being the first step count at which every      *)
(* batch element's token is end-of-sequence, and never calls it after all  *)
(* elements are done.                                                      *)
C11_ScorerCallCount ==
  IsGreedy =>
    /\ Len(scorer_calls) <= Min(max_len, StepsToAllDone)
    /\ Finished => Len(scorer_calls) = Min(max_len, StepsToAllDone)


(* Element i had emitted end-of-sequence before step t (the first step is *)
(* step 1).                                                                *)
FinishedBefore(t, i) == \E u \in 1..t - 1 : word_ids[u][i] = ES

(* C19: the step just run records, for every batch element, the           *)
(* log-probability of its token in the scorer's answer of that step, and   *)
(* exactly 0 if the element had finished before; and the returned score of *)
(* an element is the sum of what the steps recorded for it, so nothing is  *)
(* added to it after its first end-of-sequence.                            *)
C19_MaskedScoreSum ==
  /\ [][(IsGreedy /\ pc = "loop" /\ Len(word_ids') = Len(word_ids) + 1) =>
          LET t == Len(word_ids') IN
          /\ Len(score') = t
          /\ \A u \in 1..t - 1 : score'[u] = score[u]
          /\ \A i \in 1..batch_size :
               score'[t][i] = IF FinishedBefore(t, i) THEN 0
                              ELSE current_output'[1][i][word_ids'[t][i]]
       ]_vars
  /\ []((IsGreedy /\ pc = "done") =>
          /\ Len(results[1].score.unnormalized) = batch_size
          /\ \A i \in 1..batch_size :
               /\ results[1].score.unnormalized[i] =
                    SumSeq([t \in 1..Len(score) |->
                              IF FinishedBefore(t, i) THEN 0 ELSE score[t][i]])
               /\ results[1].score.normalized[i] = results[1].score.unnormalized[i])

(* C19 witness: in a returned batch of two an element finished at the      *)
(* first step, the scorer gave its masked token a log-probability below 0  *)
(* at the last step, and its score is that of its first step.              *)
C19_Witness ==
  /\ IsGreedy /\ pc = "done" /\ batch_size = 2
  /\ Len(word_ids) >= 2
  /\ \E i \in 1..2 :
       /\ word_ids[1][i] = ES
       /\ current_output[1][i][ES] < 0
       /\ results[1].score.unnormalized[i] = score[1][i]

-----------------------------------------------------------------------------
(* Properties of SamplingSearch.generate_output *)

IsSampling == strategy = "SamplingSearch"

(* The forced sequences as the token sequences of a result: one per batch  *)
(* element.                                                                *)
ForcedAsBatch == IF batched THEN forced_trg_ids[1] ELSE <<forced_trg_ids[1]>>

(* C7 as stated: SamplingSearch.generate_output returns exactly            *)
(* sample_size SearchOutputs in sample order; with forced_trg_ids, the     *)
(* token sequence of sample 0 is the forced sequence, and no sample of     *)
(* index >= 1 is given the forced tokens.                                  *)
C7_FirstSampleForced ==
  IsSampling =>
    /\ (pc \in {"loop", "pack"} /\ k >= 1) => ~use_forced
    /\ Finished =>
         /\ pc = "done"
         /\ Len(results) = sample_size
         /\ (forced_trg_ids # <<>> /\ sample_size >= 1) =>
              results[1].word_ids = ForcedAsBatch

-----------------------------------------------------------------------------
(* Properties of repeated calls *)

RawOf(out) == IF IsBeam THEN out.score[1].unnormalized ELSE out.score.unnormalized

SameOutput(a, b) == a.word_ids = b.word_ids /\ RawOf(a) = RawOf(b)

SecondFinished == call = 2 /\ Finished

(* C9 as stated: with a deterministic scorer and fixed forced_trg_ids, two *)
(* calls of generate_output on the same strategy (GreedySearch, BeamSearch *)
(* with beam_size = 1, SamplingSearch) yield identical token sequences and *)
(* identical raw scores.                                                   *)
C9_RepeatedCallsAgree ==
  SecondFinished =>
    /\ err = first_call[1].err
    /\ Len(results) = Len(first_call[1].results)
    /\ \A i \in 1..Len(results) : SameOutput(results[i], first_call[1].results[i])

(* C9 amended: with a deterministic scorer and fixed forced_trg_ids, two   *)
(* calls on GreedySearch or on BeamSearch with beam_size = 1 yield         *)
(* identical token sequences and raw scores; two calls on SamplingSearch   *)
(* yield the same number of outputs and an identical output for sample 0,  *)
(* the forced one, while the samples of index >= 1 are drawn anew.  A call *)
(* that raises does so both times.                                         *)
C9_ForcedCallsAgree ==
  SecondFinished =>
    /\ err = first_call[1].err
    /\ Len(results) = Len(first_call[1].results)
    /\ \A i \in 1..Len(results) :
         (~IsSampling \/ i = 1) => SameOutput(results[i], first_call[1].results[i])

(* C9 witness: a second SamplingSearch call returned the forced sample as  *)
(* the first call did and another second sample.                           *)
C9_Witness ==
  /\ SecondFinished /\ IsSampling /\ pc = "done"
  /\ Len(results) = 2
  /\ Len(results[1].word_ids[1]) = 2
  /\ SameOutput(results[1], first_call[1].results[1])
  /\ ~SameOutput(results[2], first_call[1].results[2])

-----------------------------------------------------------------------------
(* Properties of GreedySearch against BeamSearch *)

BeamFinished == call = 2 /\ IsBeam /\ Finished

(* The outcome of BeamSearch is the outcome of the GreedySearch call       *)
(* before it: neither raised, and the one output of each has the same      *)
(* tokens and the same raw score.                                          *)
SameAsGreedy ==
  LET greedy == first_call[1] IN
  /\ greedy.err = "" /\ pc = "done"
  /\ Len(greedy.results) = 1 /\ Len(results) = 1
  /\ TokensOf(results[1]) = greedy.results[1].word_ids[1]
  /\ UnnormalizedOf(results[1]) = greedy.results[1].score.unnormalized[1]

-----------------------------------------------------------------------------
(* Properties of a failing scorer *)

ScorerFailed == err = "ScorerError"

(* C13: when a scorer call fails, generate_output of every strategy ends   *)
(* with that failure and returns no SearchOutput, and from then on nothing *)
(* changes: the step is not taken again and the scorer is not called       *)
(* again.                                                                  *)
C13_ScorerFailurePropagates ==
  /\ [](ScorerFailed => pc = "error" /\ results = <<>>)
  /\ [][ScorerFailed => UNCHANGED <<pc, err, scorer_calls, results>>]_vars

(* C13 witness: the scorer failed in the second sample of SamplingSearch,  *)
(* after the first sample was complete.                                    *)
C13_Witness ==
  /\ ScorerFailed /\ IsSampling
  /\ k = 1 /\ Len(outputs) = 1
  /\ Len(scorer_calls) >= 2

-----------------------------------------------------------------------------
(* Properties of the masks of GreedySearch and SamplingSearch.sample_one *)

(* The SearchOutputs built so far: the result of GreedySearch, and what    *)
(* every finished sample_one call returned.                                *)
StepwiseOutputs == IF IsSampling THEN outputs ELSE results

(* C20: in every SearchOutput of GreedySearch.generate_output and of       *)
(* SamplingSearch.sample_one the list of masks has one entry per executed  *)
(* step, as many as every element has tokens; the entry of the first step  *)
(* is all ones; and the mask of an element at a later step is 1 if its     *)
(* token at the step before was not end-of-sequence, and 0 if it was.      *)
C20_MasksFollowTokens ==
  (IsGreedy \/ IsSampling) =>
    \A n \in 1..Len(StepwiseOutputs) :
      LET out == StepwiseOutputs[n]
          elems == 1..Len(out.word_ids)
      IN /\ \A i \in elems : Len(out.word_ids[i]) = Len(out.mask)
         /\ Len(out.mask) >= 1
         /\ \A m \in 1..Len(out.mask) : DOMAIN out.mask[m] = elems
         /\ \A i \in elems : out.mask[1][i] = 1
         /\ \A m \in 2..Len(out.mask) : \A i \in elems :
              out.mask[m][i] = IF out.word_ids[i][m - 1] # ES THEN 1 ELSE 0

(* C20 witness: sample_one returned a batch of two of two steps, one       *)
(* element masked at the second step and the other not.                    *)
C20_Witness ==
  /\ IsSampling /\ Len(outputs) >= 1
  /\ Len(outputs[1].mask) = 2
  /\ \E i, j \in 1..Len(outputs[1].word_ids) :
       outputs[1].mask[2][i] = 0 /\ outputs[1].mask[2][j] = 1

-----------------------------------------------------------------------------
(* Properties of Vocab *)

(* The id of every word of i2w is its position, and the word of every id   *)
(* of w2i is that word.                                                    *)
Bijective ==
  /\ Cardinality(DOMAIN w2i) = Len(i2w)
  /\ \A i \in 0..(Len(i2w) - 1) : Contains(i2w[i + 1]) /\ w2i[i2w[i + 1]] = i
  /\ \A w \in DOMAIN w2i : w2i[w] \in 0..(Len(i2w) - 1) /\ i2w[w2i[w] + 1] = w

ReservedBound ==
  /\ Contains(SS_STR) /\ w2i[SS_STR] = SS /\ i2w[SS + 1] = SS_STR
  /\ Contains(ES_STR) /\ w2i[ES_STR] = ES /\ i2w[ES + 1] = ES_STR

(* A convert call on a frozen vocabulary changes nothing; it returns the   *)
(* id of a known word, the unk id for an unknown word, or fails with an    *)
(* AssertionError when the word is unknown and no unk token is set.        *)
FrozenConvert ==
  (frozen /\ vocab_call'.op = "convert") =>
    /\ UNCHANGED <<w2i, i2w, frozen, unk_token>>
    /\ LET w == vocab_call'.w
       IN IF Contains(w)
          THEN vocab_call'.ret = <<w2i[w]>> /\ vocab_call'.err = ""
          ELSE IF unk_token # <<>>
               THEN vocab_call'.ret = unk_token /\ vocab_call'.err = ""
               ELSE vocab_call'.ret = <<>> /\ vocab_call'.err = "AssertionError"

(* C22: for a Vocab created without arguments, after any sequence of       *)
(* convert, freeze and set_unk calls w2i and i2w are inverse to each other *)
(* and of equal size, ids 0 and 1 are bound to "<s>" and "</s>", and a     *)
(* convert call on a frozen vocabulary never adds a word: it returns the   *)
(* unk id for an unknown word, or fails if no unk token is set.            *)
C22_VocabBijective ==
  /\ [](Bijective /\ ReservedBound)
  /\ [][FrozenConvert]_vars

(* A frozen vocabulary that grew by convert and then by set_unk, on which  *)
(* convert of an unknown word has just returned the unk id.                *)
C22_Witness ==
  /\ frozen
  /\ Len(i2w) >= 4
  /\ unk_token = <<Len(i2w) - 1>>
  /\ vocab_call.op = "convert" /\ ~Contains(vocab_call.w)
  /\ vocab_call.ret = unk_token /\ vocab_call.err = ""

====
